---------------------------- MODULE Spec2Model ----------------------------
(***************************************************************************)
(* A model of the TSP solver repository (Rust):                            *)
(*   src/src/tsp_solver.rs    TSPSolver: new, solve, dp, reconstruct_path  *)
(*   src/src/input_parser.rs  InputParser: parse and the two layouts       *)
(*   src/src/main.rs          main, validate_input,                        *)
(*                            generate_unique_filename                     *)
(*                                                                         *)
(* Numbers.  The program computes with f64.  A distance is modelled as a   *)
(* natural number, and INFINITY stands for f64::INFINITY: it absorbs       *)
(* addition and is not < itself.  A NaN behaves like INFINITY everywhere   *)
(* the program looks at it (NaN < x and x < NaN are false, NaN != 0.0 is   *)
(* true), so INFINITY stands for it as well.  Rounding of finite sums is   *)
(* not modelled.                                                           *)
(*                                                                         *)
(* Indices.  Cities and bit positions are 0-based as in the source; a      *)
(* Vec is a TLA+ sequence, so element i of a Vec v is v[i + 1].            *)
(***************************************************************************)
EXTENDS Integers, Sequences, FiniteSets, TLC

VARIABLES
    \* ---- TSPSolver (tsp_solver.rs:4-9) and the locals of its methods
    distance_matrix,  \* Vec<Vec<f64>>
    n,                \* usize
    memo,             \* HashMap<(mask, current), f64>
    parent,           \* HashMap<(mask, current), usize>
    pc,               \* "none" (no solver yet) | "idle" | "dp" |
                      \* "reconstruct_init" | "reconstruct"
    stack,            \* the activation records of dp, innermost last
    min_cost,         \* solve's local min_cost
    path,             \* reconstruct_path's local path
    current_mask,     \* reconstruct_path's local current_mask
    current_city,     \* reconstruct_path's local current_city
    results,          \* the values solve has returned, oldest first
    entry_memo,       \* memo as each call of solve found it, oldest first
    entry_parent,     \* parent as each call of solve found it, oldest first
    dp_calls,         \* number of dp invocations made by each call of solve
    \* ---- main (main.rs:47-109) and InputParser::parse
    content,          \* the text of the input file: lines of tokens
    parsed,           \* what InputParser::parse returned
    mpc,              \* where main is: "off" | "parse" | "validate" |
                      \* "construct" | "solve" | "present" | "exit_err"
    exit_error,       \* the error main returned with
    \* ---- generate_unique_filename (main.rs:111-143)
    dir_exists,       \* Path::new("output").exists()
    files,            \* the files that exist in output/, by suffix number
    counter,          \* the local counter
    fpc,              \* "off" | "start" | "loop" | "done"
    filename          \* the value returned

solverVars == <<distance_matrix, n, memo, parent, pc, stack, min_cost, path,
                current_mask, current_city, results, entry_memo,
                entry_parent, dp_calls>>
mainVars == <<content, parsed, mpc, exit_error>>
fileVars == <<dir_exists, files, counter, fpc, filename>>
vars == <<solverVars, mainVars, fileVars>>

----------------------------------------------------------------------------
(* Bounds of the model *)

\* the largest number of cities handed to TSPSolver::new
MaxN == 4
\* the largest finite distance
MaxDist == 2
\* how many times solve is called on one TSPSolver
MaxCalls == 2

----------------------------------------------------------------------------
(* f64 *)

\* f64::INFINITY: above every finite cost the model can form
INFINITY == (MaxN + 2) * (MaxDist + 1) + 1

Add(a, b) == IF a = INFINITY \/ b = INFINITY THEN INFINITY ELSE a + b

Dist == (0 .. MaxDist) \cup {INFINITY}

----------------------------------------------------------------------------
(* usize bit masks *)

Shl(k) == 2 ^ k

\* mask & (1 << i) != 0
HasBit(mask, i) == (mask \div Shl(i)) % 2 = 1

\* mask | (1 << i)
OrBit(mask, i) == IF HasBit(mask, i) THEN mask ELSE mask + Shl(i)

FullMask_NoMinusOne(k) == Shl(k)

\* (1 << n) - 1
FullMask(k) == Shl(k) - 1

----------------------------------------------------------------------------
(* HashMap *)

\* HashMap::new()
EmptyTable == [k \in {} |-> 0]

\* map.insert(key, value)
Insert(map, key, value) ==
    [k \in (DOMAIN map) \cup {key} |-> IF k = key THEN value ELSE map[k]]

Cached_Never(map, key) == FALSE

\* map.get(&key) is Some
Cached(map, key) == key \in DOMAIN map

----------------------------------------------------------------------------
(* TSPSolver *)

\* self.distance_matrix[i][j]
At(dm, i, j) == dm[i + 1][j + 1]

BaseCase_Transposed(dm, current) == At(dm, 0, current)

\* dp's base case: every city visited, close the cycle
BaseCase(dm, current) == At(dm, current, 0)

EdgeCost_Transposed(dm, current, next) == At(dm, next, current)

\* the first summand of dp's candidate cost
EdgeCost(dm, current, next) == At(dm, current, next)

\* a fresh activation record of dp past the base case and the memo lookup
Frame(mask, current) ==
    [mask |-> mask, current |-> current, next |-> 0,
     min_cost |-> INFINITY, best_next |-> 0]

\* the body of dp's loop once the recursive call has returned value v
Absorb(dm, f, v) ==
    LET cost == Add(EdgeCost(dm, f.current, f.next), v)
    IN  IF cost < f.min_cost
        THEN [f EXCEPT !.min_cost = cost, !.best_next = f.next,
                       !.next = f.next + 1]
        ELSE [f EXCEPT !.next = f.next + 1]

InitialPath_Empty(start_city) == << >>

\* reconstruct_path: let mut path = vec![start_city]
InitialPath(start_city) == <<start_city>>

DegenerateResult_Empty(k) == <<0, << >> >>

\* solve's answers for n = 0 and n = 1
DegenerateResult(k) == IF k = 0 THEN <<0, << >> >> ELSE <<0, <<0>> >>

\* TSPSolver::new
SolverNew(dm) ==
    /\ distance_matrix' = dm
    /\ n' = Len(dm)
    /\ memo' = EmptyTable
    /\ parent' = EmptyTable
    /\ pc' = "idle"
    /\ stack' = << >>
    /\ min_cost' = 0
    /\ path' = << >>
    /\ current_mask' = 0
    /\ current_city' = 0
    /\ results' = << >>
    /\ entry_memo' = << >>
    /\ entry_parent' = << >>
    /\ dp_calls' = << >>

\* solve returns (min_cost, path)
AddToLast(s, k) == [s EXCEPT ![Len(s)] = @ + k]

\* solve up to the point where dp(start_mask, 0) has been entered
SolveBegin ==
    /\ pc = "idle"
    /\ Len(results) < MaxCalls
    /\ entry_memo' = Append(entry_memo, memo)
    /\ entry_parent' = Append(entry_parent, parent)
    /\ UNCHANGED <<distance_matrix, n, memo, parent, path, current_mask,
                   current_city>>
    /\ IF n = 0 \/ n = 1
       THEN /\ results' = Append(results, DegenerateResult(n))
            /\ dp_calls' = Append(dp_calls, 0)
            /\ UNCHANGED <<pc, stack, min_cost>>
       ELSE /\ dp_calls' = Append(dp_calls, 1)
            /\ UNCHANGED results
            /\ IF 1 = FullMask(n)
               THEN /\ min_cost' = BaseCase(distance_matrix, 0)
                    /\ pc' = "reconstruct_init"
                    /\ UNCHANGED stack
               ELSE IF Cached(memo, <<1, 0>>)
               THEN /\ min_cost' = memo[<<1, 0>>]
                    /\ pc' = "reconstruct_init"
                    /\ UNCHANGED stack
               ELSE /\ stack' = <<Frame(1, 0)>>
                    /\ pc' = "dp"
                    /\ UNCHANGED min_cost

\* one iteration of dp's loop in the innermost activation, up to the point
\* where the recursive call (if any) has returned or has been entered
DpLoop ==
    /\ pc = "dp"
    /\ stack # << >>
    /\ LET d == Len(stack)
           f == stack[d]
       IN  /\ f.next < n
           /\ UNCHANGED <<distance_matrix, n, memo, parent, pc, min_cost,
                          path, current_mask, current_city, results,
                          entry_memo, entry_parent>>
           /\ IF HasBit(f.mask, f.next)
              THEN /\ stack' = [stack EXCEPT ![d].next = f.next + 1]
                   /\ UNCHANGED dp_calls
              ELSE LET new_mask == OrBit(f.mask, f.next)
                   IN  /\ dp_calls' = AddToLast(dp_calls, 1)
                       /\ IF new_mask = FullMask(n)
                          THEN stack' = [stack EXCEPT ![d] =
                                 Absorb(distance_matrix, f,
                                        BaseCase(distance_matrix, f.next))]
                          ELSE IF Cached(memo, <<new_mask, f.next>>)
                          THEN stack' = [stack EXCEPT ![d] =
                                 Absorb(distance_matrix, f,
                                        memo[<<new_mask, f.next>>])]
                          ELSE stack' = Append(stack,
                                               Frame(new_mask, f.next))

\* the end of dp's loop: memoize and return to the caller
DpReturn ==
    /\ pc = "dp"
    /\ stack # << >>
    /\ LET d == Len(stack)
           f == stack[d]
       IN  /\ f.next = n
           /\ memo' = Insert(memo, <<f.mask, f.current>>, f.min_cost)
           /\ parent' = Insert(parent, <<f.mask, f.current>>, f.best_next)
           /\ UNCHANGED <<distance_matrix, n, path, current_mask,
                          current_city, results, entry_memo, entry_parent,
                          dp_calls>>
           /\ IF d = 1
              THEN /\ stack' = << >>
                   /\ min_cost' = f.min_cost
                   /\ pc' = "reconstruct_init"
              ELSE /\ stack' = [SubSeq(stack, 1, d - 1) EXCEPT ![d - 1] =
                                  Absorb(distance_matrix, stack[d - 1],
                                         f.min_cost)]
                   /\ UNCHANGED <<min_cost, pc>>

\* reconstruct_path up to its loop
ReconstructBegin ==
    /\ pc = "reconstruct_init"
    /\ path' = InitialPath(0)
    /\ current_mask' = 1
    /\ current_city' = 0
    /\ pc' = "reconstruct"
    /\ UNCHANGED <<distance_matrix, n, memo, parent, stack, min_cost,
                   results, entry_memo, entry_parent, dp_calls>>

\* the loop of reconstruct_path keeps pushing while the model can hold path
MaxPath == MaxN + 3

\* one iteration of reconstruct_path's loop that finds a Parent entry
ReconstructLoop ==
    /\ pc = "reconstruct"
    /\ current_mask # FullMask(n)
    /\ <<current_mask, current_city>> \in DOMAIN parent
    /\ Len(path) < MaxPath
    /\ LET next_city == parent[<<current_mask, current_city>>]
       IN  /\ path' = Append(path, next_city)
           /\ current_mask' = OrBit(current_mask, next_city)
           /\ current_city' = next_city
    /\ UNCHANGED <<distance_matrix, n, memo, parent, pc, stack, min_cost,
                   results, entry_memo, entry_parent, dp_calls>>

\* the loop of reconstruct_path ends (mask full, or no Parent entry) and
\* solve returns Ok((min_cost, path))
SolveReturn ==
    /\ pc = "reconstruct"
    /\ ~ (/\ current_mask # FullMask(n)
          /\ <<current_mask, current_city>> \in DOMAIN parent)
    /\ results' = Append(results, <<min_cost, path>>)
    /\ pc' = "idle"
    /\ UNCHANGED <<distance_matrix, n, memo, parent, stack, min_cost, path,
                   current_mask, current_city, entry_memo, entry_parent,
                   dp_calls>>

----------------------------------------------------------------------------
(* InputParser.  A text is a sequence of lines, a line the sequence of its  *)
(* whitespace-separated tokens (line.trim() and split_whitespace() are part *)
(* of this representation), a token a string.                               *)

\* the texts of the decimal numbers 0 .. 9 as f64's Display writes them
Digits == <<"0", "1", "2", "3", "4", "5", "6", "7", "8", "9">>

\* s.parse::<f64>() is Ok
ParsesAsF64(t) ==
    \/ t \in {"inf", "-1", "1.0"}
    \/ \E d \in 1 .. Len(Digits) : Digits[d] = t

\* s.parse::<f64>().unwrap()
NumberOf(t) ==
    CASE t = "inf" -> INFINITY
      [] t = "-1" -> -1
      [] t = "1.0" -> 1
      [] OTHER -> (CHOOSE d \in 1 .. Len(Digits) : Digits[d] = t) - 1

\* the tokens that begin with '#'
HashTokens == {"#c"}

\* line.starts_with('#')
StartsWithHash(line) == line # << >> /\ line[1] \in HashTokens

\* parse: the lines that are neither empty nor comments
Retained(text) ==
    SelectSeq(text, LAMBDA line : line # << >> /\ ~ StartsWithHash(line))

ParseOk(c, m) == [ok |-> TRUE, err |-> "none", cities |-> c, matrix |-> m]

ParseErr(e) == [ok |-> FALSE, err |-> e, cities |-> << >>, matrix |-> << >>]

MoreThanOne_MoreThanTwo(len) == len > 2

\* is_matrix_format: first_line_parts.len() > 1
MoreThanOne(len) == len > 1

\* is_matrix_format
IsMatrixFormat(lines) ==
    IF lines = << >> THEN FALSE
    ELSE /\ MoreThanOne(Len(lines[1]))
         /\ \E k \in 1 .. Len(lines[1]) : ~ ParsesAsF64(lines[1][k])

RowCountMismatch_Never(len, k) == FALSE

\* matrix.len() != n
RowCountMismatch(len, k) == len # k

RECURSIVE ParseRows(_, _, _, _)
\* the loop over the matrix lines and the check that follows it; i is the
\* loop index, matrix the rows pushed so far
ParseRows(rows, k, i, matrix) ==
    IF i >= Len(rows) \/ i >= k
    THEN IF RowCountMismatch(Len(matrix), k)
         THEN [ok |-> FALSE, err |-> "rows", matrix |-> << >>]
         ELSE [ok |-> TRUE, err |-> "none", matrix |-> matrix]
    ELSE LET line == rows[i + 1]
         IN  IF \E j \in 1 .. Len(line) : ~ ParsesAsF64(line[j])
             THEN [ok |-> FALSE, err |-> "invalid_number", matrix |-> << >>]
             ELSE IF Len(line) # k
             THEN [ok |-> FALSE, err |-> "columns", matrix |-> << >>]
             ELSE ParseRows(rows, k, i + 1,
                            Append(matrix,
                                   [j \in 1 .. k |-> NumberOf(line[j])]))

\* a city name of the matrix layout is one token; a name is held as the
\* token sequence of its text, so that both layouts yield the same type
ParseMatrixFormat(lines) ==
    IF Len(lines) < 2 THEN ParseErr("needs_2_lines")
    ELSE LET cities == [k \in 1 .. Len(lines[1]) |-> <<lines[1][k]>>]
             k == Len(cities)
         IN  IF k = 0 THEN ParseErr("no_cities")
             ELSE LET r == ParseRows(SubSeq(lines, 2, Len(lines)), k, 0, << >>)
                  IN  IF r.ok THEN ParseOk(cities, r.matrix)
                      ELSE ParseErr(r.err)

\* parse_list_format: the index of the first line whose parts all parse as
\* f64, or 0 when there is none
MatrixStart(lines) ==
    LET numeric == {i \in 0 .. Len(lines) - 1 :
                      \A j \in 1 .. Len(lines[i + 1]) :
                          ParsesAsF64(lines[i + 1][j])}
    IN  IF numeric = {} THEN 0
        ELSE CHOOSE i \in numeric : \A o \in numeric : i <= o

\* a city name of the list layout is a whole line
ParseListFormat(lines) ==
    LET matrix_start == MatrixStart(lines)
    IN  IF matrix_start = 0 THEN ParseErr("no_matrix")
        ELSE LET cities == SubSeq(lines, 1, matrix_start)
                 k == Len(cities)
             IN  IF k = 0 THEN ParseErr("no_cities")
                 ELSE LET r == ParseRows(
                                 SubSeq(lines, matrix_start + 1, Len(lines)),
                                 k, 0, << >>)
                      IN  IF r.ok THEN ParseOk(cities, r.matrix)
                          ELSE ParseErr(r.err)

\* InputParser::parse
Parse(text) ==
    LET lines == Retained(text)
    IN  IF lines = << >> THEN ParseErr("empty")
        ELSE IF IsMatrixFormat(lines) THEN ParseMatrixFormat(lines)
        ELSE ParseListFormat(lines)

----------------------------------------------------------------------------
(* main *)

\* validate_input: the largest number of cities it accepts
MaxCities == 20

TooFewCities_BelowOne(k) == k < 1

\* validate_input: n < 2
TooFewCities(k) == k < 2

RECURSIVE ValidateRows(_, _, _)
\* validate_input's loop over the rows from row i (0-based) on
ValidateRows(matrix, k, i) ==
    IF i >= Len(matrix) THEN "ok"
    ELSE LET row == matrix[i + 1]
         IN  IF Len(row) # k THEN "columns"
             ELSE IF row[i + 1] # 0 THEN "diagonal"
             ELSE IF \E j \in 1 .. Len(row) : row[j] < 0 THEN "negative"
             ELSE ValidateRows(matrix, k, i + 1)

\* validate_input: "ok" or the check that failed
ValidateInput(cities, matrix) ==
    LET k == Len(cities)
    IN  IF TooFewCities(k) THEN "too_few"
        ELSE IF k > MaxCities THEN "too_many"
        ELSE IF Len(matrix) # k THEN "rows"
        ELSE ValidateRows(matrix, k, 0)

\* main.rs:65-67: parse the text of the input file
MainParse ==
    /\ mpc = "parse"
    /\ parsed' = Parse(content)
    /\ IF parsed'.ok
       THEN mpc' = "validate" /\ UNCHANGED exit_error
       ELSE mpc' = "exit_err" /\ exit_error' = "InvalidFormat"
    /\ UNCHANGED <<content, solverVars, fileVars>>

\* main.rs:72: validate_input(&cities, &distance_matrix)?
MainValidate ==
    /\ mpc = "validate"
    /\ IF ValidateInput(parsed.cities, parsed.matrix) = "ok"
       THEN mpc' = "construct" /\ UNCHANGED exit_error
       ELSE mpc' = "exit_err" /\ exit_error' = "GraphValidation"
    /\ UNCHANGED <<content, parsed, solverVars, fileVars>>

\* main.rs:80: TSPSolver::new(distance_matrix)
MainConstruct ==
    /\ mpc = "construct"
    /\ SolverNew(parsed.matrix)
    /\ mpc' = "solve"
    /\ UNCHANGED <<content, parsed, exit_error, fileVars>>

\* main.rs:81: solver.solve(args.verbose)?, called once
MainSolve ==
    /\ mpc = "solve"
    /\ Len(results) = 0
    /\ SolveBegin
    /\ UNCHANGED <<mainVars, fileVars>>

\* main.rs:83-93: solve has returned and main prints the result
MainPresent ==
    /\ mpc = "solve"
    /\ Len(results) = 1
    /\ mpc' = "present"
    /\ UNCHANGED <<content, parsed, exit_error, solverVars, fileVars>>

----------------------------------------------------------------------------
(* generate_unique_filename.  The file output/<base>.png is file 0 and      *)
(* output/<base>_k.png is file k; the files that exist are held as a set of *)
(* ranges <<lo, hi>> of such numbers.  Nothing else touches the directory   *)
(* while the function runs.                                                 *)

\* Path::new(name of file k).exists()
Exists(k) == \E r \in files : r[1] <= k /\ k <= r[2]

\* the last suffix generate_unique_filename tries
MaxCounter == 9999

ExceedsLimit_OneEarly(c) == c >= MaxCounter

\* counter > 9999
ExceedsLimit(c) == c > MaxCounter

FileOk(k) == [ok |-> TRUE, suffix |-> k, err |-> "none"]

FileErr(e) == [ok |-> FALSE, suffix |-> 0, err |-> e]

\* generate_unique_filename up to its loop (main.rs:112-128)
GenStart ==
    /\ fpc = "start"
    /\ IF ~ dir_exists
       THEN /\ filename' = FileErr("FileNotFound")
            /\ fpc' = "done"
            /\ UNCHANGED counter
       ELSE IF ~ Exists(0)
       THEN /\ filename' = FileOk(0)
            /\ fpc' = "done"
            /\ UNCHANGED counter
       ELSE /\ counter' = 1
            /\ fpc' = "loop"
            /\ UNCHANGED filename
    /\ UNCHANGED <<dir_exists, files>>

\* one iteration of its loop (main.rs:129-142)
GenLoop ==
    /\ fpc = "loop"
    /\ IF ~ Exists(counter)
       THEN /\ filename' = FileOk(counter)
            /\ fpc' = "done"
            /\ UNCHANGED counter
       ELSE /\ counter' = counter + 1
            /\ IF ExceedsLimit(counter')
               THEN /\ filename' = FileErr("SolverError")
                    /\ fpc' = "done"
               ELSE UNCHANGED <<filename, fpc>>
    /\ UNCHANGED <<dir_exists, files>>

\* the longest run of existing files from file 0 on, among the short runs
MaxPrefix == 3

\* the directories the function is run in: files 0 .. a - 1 exist, for a
\* small or around the limit, and possibly some files after a gap
Directories ==
    LET prefixes == (0 .. MaxPrefix) \cup (MaxCounter - 2 .. MaxCounter + 2)
        first(a) == IF a = 0 THEN {} ELSE {<<0, a - 1>>}
    IN  {first(a) : a \in prefixes}
            \cup {first(a) \cup {<<a + 1, a + g>>} :
                      <<a, g>> \in prefixes \X (1 .. 2)}

SolverIdle ==
    /\ distance_matrix = << >>
    /\ n = 0
    /\ memo = EmptyTable
    /\ parent = EmptyTable
    /\ pc = "none"
    /\ stack = << >>
    /\ min_cost = 0
    /\ path = << >>
    /\ current_mask = 0
    /\ current_city = 0
    /\ results = << >>
    /\ entry_memo = << >>
    /\ entry_parent = << >>
    /\ dp_calls = << >>

InitFilename ==
    /\ dir_exists \in BOOLEAN
    /\ files \in Directories
    /\ counter = 0
    /\ fpc = "start"
    /\ filename = FileErr("none")
    /\ SolverIdle
    /\ content = << >>
    /\ parsed = [ok |-> FALSE, err |-> "none", cities |-> << >>,
                 matrix |-> << >>]
    /\ mpc = "off"
    /\ exit_error = "none"

NextFilename ==
    \/ GenStart /\ UNCHANGED <<solverVars, mainVars>>
    \/ GenLoop /\ UNCHANGED <<solverVars, mainVars>>

SpecFilename == InitFilename /\ [][NextFilename]_vars

----------------------------------------------------------------------------
(* The solver on its own: a caller builds a TSPSolver and calls solve *)

\* a k x k matrix with a zero diagonal and b everywhere else
Uniform(k, b) == [i \in 1 .. k |-> [j \in 1 .. k |-> IF i = j THEN 0 ELSE b]]

OffDiagonal(k) == {e \in (1 .. k) \X (1 .. k) : e[1] # e[2]}

\* the matrices handed to TSPSolver::new: zero diagonal, entries >= 0, not
\* necessarily symmetric; a matrix that is 1 everywhere, or INFINITY
\* everywhere, off the diagonal, with two entries overwritten
Matrices(k) ==
    IF k < 2
    THEN {Uniform(k, 0)}
    ELSE {[Uniform(k, b) EXCEPT ![p[1]][p[2]] = v, ![q[1]][q[2]] = w] :
            <<b, v, w>> \in {1, INFINITY} \X Dist \X Dist,
            <<p, q>> \in OffDiagonal(k) \X OffDiagonal(k)}

MainIdle ==
    /\ content = << >>
    /\ parsed = ParseErr("none")
    /\ mpc = "off"
    /\ exit_error = "none"

FileIdle ==
    /\ dir_exists = FALSE
    /\ files = {}
    /\ counter = 0
    /\ fpc = "off"
    /\ filename = [ok |-> FALSE, suffix |-> 0, err |-> "none"]

\* a sparser family for more cities: a matrix that is 1 everywhere, or
\* INFINITY everywhere, off the diagonal, with one entry overwritten
OneEntryMatrices(k) ==
    {[Uniform(k, b) EXCEPT ![p[1]][p[2]] = v] :
        <<b, v>> \in {1, INFINITY} \X Dist, p \in OffDiagonal(k)}

InitSolver ==
    /\ \/ \E k \in 0 .. MaxN : distance_matrix \in Matrices(k)
       \/ distance_matrix \in OneEntryMatrices(MaxN + 1)
    /\ n = Len(distance_matrix)
    /\ memo = EmptyTable
    /\ parent = EmptyTable
    /\ pc = "idle"
    /\ stack = << >>
    /\ min_cost = 0
    /\ path = << >>
    /\ current_mask = 0
    /\ current_city = 0
    /\ results = << >>
    /\ entry_memo = << >>
    /\ entry_parent = << >>
    /\ dp_calls = << >>
    /\ MainIdle
    /\ FileIdle

NextSolver ==
    \/ SolveBegin /\ UNCHANGED <<mainVars, fileVars>>
    \/ DpLoop /\ UNCHANGED <<mainVars, fileVars>>
    \/ DpReturn /\ UNCHANGED <<mainVars, fileVars>>
    \/ ReconstructBegin /\ UNCHANGED <<mainVars, fileVars>>
    \/ ReconstructLoop /\ UNCHANGED <<mainVars, fileVars>>
    \/ SolveReturn /\ UNCHANGED <<mainVars, fileVars>>

SpecSolver == InitSolver /\ [][NextSolver]_vars

----------------------------------------------------------------------------
(* The program: main reads a text, parses it, validates it and solves it *)

\* the longest text, in lines, of the texts enumerated in full
MaxLines == 4

\* f64's Display
Fmt(v) ==
    IF v = INFINITY THEN "inf" ELSE IF v < 0 THEN "-1" ELSE Digits[v + 1]

NameTokens == <<"A", "B", "C", "D", "E", "F", "G">>

\* k city names
Names(k) == [i \in 1 .. k |-> NameTokens[((i - 1) % Len(NameTokens)) + 1]]

\* the text of the matrix layout: one line of names, then the rows
SerializeMatrix(names, m) ==
    <<names>> \o [i \in 1 .. Len(m) |-> [j \in 1 .. Len(m[i]) |-> Fmt(m[i][j])]]

\* the text of the list layout: one name a line, then the rows
SerializeList(names, m) ==
    [i \in 1 .. Len(names) |-> <<names[i]>>]
        \o [i \in 1 .. Len(m) |-> [j \in 1 .. Len(m[i]) |-> Fmt(m[i][j])]]

\* every text of at most MaxLines lines of at most two tokens over a name,
\* a number and a comment token
SmallTexts ==
    LET toks == {"A", "0", "#c"}
        lines == {<< >>} \cup {<<a>> : a \in toks}
                     \cup {<<a, b>> : <<a, b>> \in toks \X toks}
    IN  UNION {[1 .. k -> lines] : k \in 0 .. MaxLines}

\* two cities, in either layout, with every 2 x 2 matrix of number tokens
TwoCityTexts ==
    LET toks == {"0", "1", "1.0", "-1", "inf"}
        rows == {<<<<a, b>>, <<c, d>>>> :
                   <<a, b, c, d>> \in toks \X toks \X toks \X toks}
    IN  {<<<<"A", "B">>>> \o r : r \in rows}
            \cup {<<<<"A">>, <<"B">>>> \o r : r \in rows}

\* 2 .. MaxN cities, in either layout, the matrix 1 or INFINITY everywhere
\* off the diagonal with one entry overwritten
SolvableTexts ==
    UNION {{SerializeMatrix(Names(k), m) : m \in OneEntryMatrices(k)}
               \cup {SerializeList(Names(k), m) : m \in OneEntryMatrices(k)} :
           k \in 2 .. MaxN}

\* one city more than validate_input accepts, in either layout
TooManyTexts ==
    LET k == MaxCities + 1
    IN  {SerializeMatrix(Names(k), Uniform(k, 1)),
         SerializeList(Names(k), Uniform(k, 1))}

InputTexts == SmallTexts \cup TwoCityTexts \cup SolvableTexts \cup TooManyTexts

InitMain ==
    /\ content \in InputTexts
    /\ parsed = ParseErr("none")
    /\ mpc = "parse"
    /\ exit_error = "none"
    /\ SolverIdle
    /\ FileIdle

NextMain ==
    \/ MainParse
    \/ MainValidate
    \/ MainConstruct
    \/ MainSolve
    \/ DpLoop /\ UNCHANGED <<mainVars, fileVars>>
    \/ DpReturn /\ UNCHANGED <<mainVars, fileVars>>
    \/ ReconstructBegin /\ UNCHANGED <<mainVars, fileVars>>
    \/ ReconstructLoop /\ UNCHANGED <<mainVars, fileVars>>
    \/ SolveReturn /\ UNCHANGED <<mainVars, fileVars>>
    \/ MainPresent

SpecMain == InitMain /\ [][NextMain]_vars

----------------------------------------------------------------------------
(* What the solver is measured against *)

\* the orders in which the cities of S can be visited
Perms(S) ==
    {p \in [1 .. Cardinality(S) -> S] :
        \A i, j \in 1 .. Cardinality(S) : i # j => p[i] # p[j]}

RECURSIVE PathCost(_, _, _)
\* the sum of the edges t[i] -> t[i+1] from position i on
PathCost(dm, t, i) ==
    IF i >= Len(t) THEN 0
    ELSE Add(At(dm, t[i], t[i + 1]), PathCost(dm, t, i + 1))

\* the cost of the cycle that visits t in order and returns to t[1]
CycleCost(dm, t) == Add(PathCost(dm, t, 1), At(dm, t[Len(t)], t[1]))

Least(S) == CHOOSE x \in S : \A y \in S : x <= y

\* the cost of the cheapest cycle through all cities from city 0
BruteForce(dm) ==
    Least({CycleCost(dm, <<0>> \o p) : p \in Perms(1 .. Len(dm) - 1)})

\* the cities whose bit is clear in mask
Unvisited(mask) == {c \in 0 .. n - 1 : ~ HasBit(mask, c)}

\* what dp(mask, city) returns once it has been evaluated
Completion(mask, city) ==
    IF mask = FullMask(n) THEN At(distance_matrix, city, 0)
    ELSE memo[<<mask, city>>]

\* the candidate cost of going from state k to city c
Candidate(k, c) ==
    Add(At(distance_matrix, k[2], c), Completion(OrBit(k[1], c), c))

----------------------------------------------------------------------------
(* C1: for a matrix of 2 <= n <= MaxN cities, the cost solve returns is the *)
(* minimum, over all orders of the cities 1..n-1, of the cost of the cycle  *)
(* from city 0 through the cities in that order and back to city 0.         *)
C1_CostIsBruteForceMinimum ==
    \A i \in 1 .. Len(results) :
        n >= 2 => results[i][1] = BruteForce(distance_matrix)

\* solve has returned for at least 3 cities and some cycle costs more
C1_Witness ==
    /\ Len(results) >= 1
    /\ n >= 3
    /\ results[1][1] < INFINITY
    /\ \E p \in Perms(1 .. n - 1) :
           CycleCost(distance_matrix, <<0>> \o p) > results[1][1]

(* C2: for n >= 2 the tour solve returns has exactly n elements, starts    *)
(* with city 0 and holds every city of 0..n-1 exactly once.                 *)
C2_TourVisitsEveryCityOnce ==
    \A i \in 1 .. Len(results) :
        n >= 2 =>
            LET tour == results[i][2]
            IN  /\ Len(tour) = n
                /\ tour[1] = 0
                /\ {tour[k] : k \in 1 .. Len(tour)} = 0 .. n - 1

\* solve has returned a tour for at least 3 cities that is not 0, 1, 2, ...
C2_Witness ==
    /\ Len(results) >= 1
    /\ n >= 3
    /\ \E k \in 1 .. Len(results[1][2]) : results[1][2][k] # k - 1

(* C3: the cost solve returns is the sum of the distances along the tour it *)
(* returns, plus the closing edge from the last city back to the first.     *)
C3_CostMatchesTour ==
    \A i \in 1 .. Len(results) :
        n >= 2 => results[i][1] = CycleCost(distance_matrix, results[i][2])

\* solve has returned a tour whose cost differs from the cost of the same
\* cycle driven the other way round (the matrix is not symmetric)
C3_Witness ==
    /\ Len(results) >= 1
    /\ n >= 3
    /\ LET tour == results[1][2]
           back == [k \in 1 .. Len(tour) |->
                      IF k = 1 THEN 0 ELSE tour[Len(tour) + 2 - k]]
       IN  CycleCost(distance_matrix, back) # results[1][1]

(* C4: for every state (mask, current) dp has recorded in Parent, the city  *)
(* recorded is the lowest-indexed unvisited city among those whose          *)
(* candidate cost equals the minimum candidate cost.                        *)
C4_ParentIsLowestTiedCandidate ==
    \A k \in DOMAIN parent :
        LET best == Least({Candidate(k, c) : c \in Unvisited(k[1])})
            tied == {c \in Unvisited(k[1]) : Candidate(k, c) = best}
        IN  parent[k] = Least(tied)

\* the rule of C4 where the minimum of the state is finite: this much holds
TieBreakWhenFinite ==
    \A k \in DOMAIN parent :
        memo[k] < INFINITY =>
            LET best == Least({Candidate(k, c) : c \in Unvisited(k[1])})
                tied == {c \in Unvisited(k[1]) : Candidate(k, c) = best}
            IN  memo[k] = best /\ parent[k] = Least(tied)

(* C5: solve answers n = 0 with (0.0, []) and n = 1 with (0.0, [0]); dp is  *)
(* not called and Memo and Parent stay empty.                               *)
C5_DegenerateSizes ==
    n <= 1 =>
        /\ DOMAIN memo = {}
        /\ DOMAIN parent = {}
        /\ stack = << >>
        /\ \A i \in 1 .. Len(results) :
               /\ results[i] = IF n = 0 THEN <<0, << >> >> ELSE <<0, <<0>> >>
               /\ dp_calls[i] = 0

\* solve has returned for a 1 x 1 matrix
C5_Witness == n = 1 /\ Len(results) >= 1

----------------------------------------------------------------------------
(* What the parser and main are measured against *)

\* every check of validate_input, stated on what parse returned
Acceptable(r) ==
    /\ r.ok
    /\ Len(r.cities) >= 2
    /\ Len(r.cities) <= 20
    /\ Len(r.matrix) = Len(r.cities)
    /\ \A i \in 1 .. Len(r.matrix) :
           /\ Len(r.matrix[i]) = Len(r.cities)
           /\ r.matrix[i][i] = 0
           /\ \A j \in 1 .. Len(r.matrix[i]) : r.matrix[i][j] >= 0

\* the layout has been detected: the matrix layout, or the list layout
\* with a first numeric line after at least one name
Detected(lines) ==
    lines # << >> /\ (IsMatrixFormat(lines) \/ MatrixStart(lines) > 0)

\* the detected city count n
DetectedCount(lines) ==
    IF IsMatrixFormat(lines) THEN Len(lines[1]) ELSE MatrixStart(lines)

\* the number of lines that hold the city names
NameLines(lines) == IF IsMatrixFormat(lines) THEN 1 ELSE MatrixStart(lines)

\* the number of matrix rows that follow the city names
RowsFollowing(lines) == Len(lines) - NameLines(lines)

\* the numbers a matrix can hold in the model
Values == (-1 .. Len(Digits) - 1) \cup {INFINITY}

\* text is what writing some names and some square matrix in the matrix
\* layout gives: a line of n >= 1 names, then n lines of n numbers
Written(text) ==
    /\ Len(text) >= 2
    /\ Len(text[1]) >= 1
    /\ Len(text) = Len(text[1]) + 1
    /\ \A i \in 2 .. Len(text) :
           /\ Len(text[i]) = Len(text[1])
           /\ \A j \in 1 .. Len(text[i]) :
                  \E v \in Values : Fmt(v) = text[i][j]

\* the names that were written
WrittenCities(text) == [k \in 1 .. Len(text[1]) |-> <<text[1][k]>>]

\* the matrix that was written
WrittenMatrix(text) ==
    [i \in 1 .. Len(text) - 1 |->
        [j \in 1 .. Len(text[i + 1]) |->
            CHOOSE v \in Values : Fmt(v) = text[i + 1][j]]]

----------------------------------------------------------------------------
(* C6: the solver is constructed and solve is invoked only after            *)
(* validate_input has accepted what parse returned: if the city count is    *)
(* below 2 or above 20, or the matrix is not n x n, or a diagonal entry is  *)
(* not 0, or an entry is negative, the run ends in an error and no solver   *)
(* exists.                                                                  *)
C6_SolverOnlyAfterValidation ==
    /\ pc # "none" => Acceptable(parsed)
    /\ (mpc \notin {"parse", "validate"} /\ ~ Acceptable(parsed)) =>
           (mpc = "exit_err" /\ pc = "none" /\ results = << >>)

\* a run has ended in the validation error for 21 cities, without a solver
C6_Witness ==
    /\ mpc = "exit_err"
    /\ exit_error = "GraphValidation"
    /\ Len(parsed.cities) = 21
    /\ pc = "none"

(* C7 as stated: parse fails whenever the number of matrix rows that follow *)
(* the city names differs from the detected city count, be there fewer or   *)
(* more rows, in either layout.                                             *)
C7_FailsOnAnyRowCountMismatch ==
    mpc # "parse" =>
        LET lines == Retained(content)
        IN  (Detected(lines) /\ RowsFollowing(lines) # DetectedCount(lines))
                => ~ parsed.ok

(* C7 as amended: parse fails whenever fewer matrix rows than the detected  *)
(* city count n follow the city names, in either layout; when more than n   *)
(* rows follow, the rows after the n-th are ignored and parse returns what  *)
(* it returns for the text without them.                                    *)
C7_FailsOnTooFewRowsIgnoresExtraRows ==
    mpc # "parse" =>
        LET lines == Retained(content)
            k == DetectedCount(lines)
        IN  Detected(lines) =>
                /\ RowsFollowing(lines) < k => ~ parsed.ok
                /\ RowsFollowing(lines) > k =>
                       parsed = Parse(SubSeq(lines, 1, NameLines(lines) + k))

\* parse has returned Ok for a matrix-layout text with more rows than names
C7_Witness ==
    /\ mpc # "parse"
    /\ IsMatrixFormat(Retained(content))
    /\ RowsFollowing(Retained(content)) > DetectedCount(Retained(content))
    /\ parsed.ok

(* C8 as stated: parsing the text made of one line of n >= 1 names and n    *)
(* lines of n numbers returns exactly those names and that matrix, for      *)
(* every choice of name tokens.                                             *)
C8_RoundTripForAllNames ==
    (mpc # "parse" /\ Written(content)) =>
        parsed = ParseOk(WrittenCities(content), WrittenMatrix(content))

(* C8 as amended: parsing the text made of one line of n >= 1 names and n   *)
(* lines of n numbers returns exactly those names and that matrix, provided *)
(* the first name does not begin with '#' and at least one name does not    *)
(* parse as a real number.                                                  *)
C8_RoundTripForDetectableNames ==
    (/\ mpc # "parse"
     /\ Written(content)
     /\ content[1][1] \notin HashTokens
     /\ \E k \in 1 .. Len(content[1]) : ~ ParsesAsF64(content[1][k])) =>
        parsed = ParseOk(WrittenCities(content), WrittenMatrix(content))

\* a written text of at least two names, one of which reads as a number,
\* and of a matrix that is not all zero, has been parsed
C8_Witness ==
    /\ mpc # "parse"
    /\ Written(content)
    /\ Len(content[1]) >= 2
    /\ \E k \in 1 .. Len(content[1]) : ParsesAsF64(content[1][k])
    /\ parsed.ok
    /\ parsed.cities = WrittenCities(content)

----------------------------------------------------------------------------
(* C9: generate_unique_filename fails if the output directory is missing;   *)
(* otherwise it returns output/<base>.png if that file does not exist;      *)
(* otherwise output/<base>_k.png for the smallest k in 1..9999 whose file   *)
(* does not exist; it returns the fatal error exactly when <base>.png and   *)
(* all of <base>_1.png .. <base>_9999.png exist.  Suffix 10000 is never     *)
(* tried, and the name of an existing file is never returned.               *)
C9_UniqueFilename ==
    /\ fpc = "loop" => (counter >= 1 /\ counter <= 9999)
    /\ fpc = "done" =>
           /\ ~ dir_exists => filename = FileErr("FileNotFound")
           /\ (dir_exists /\ ~ Exists(0)) => filename = FileOk(0)
           /\ filename.ok =>
                  /\ dir_exists
                  /\ ~ Exists(filename.suffix)
                  /\ filename.suffix \in 0 .. 9999
                  /\ \A j \in 0 .. filename.suffix - 1 : Exists(j)
           /\ filename = FileErr("SolverError") <=>
                  (dir_exists /\ \A j \in 0 .. 9999 : Exists(j))

\* suffix 9999 has been tried and returned
C9_Witness == fpc = "done" /\ filename = FileOk(9999)

----------------------------------------------------------------------------
(* C11: Memo and Parent are populated together: whenever a call of dp has   *)
(* returned, the set of keys (mask, current) of Memo is the set of keys of  *)
(* Parent, and neither table holds a key whose mask is the full set         *)
(* (1 << n) - 1; for a full mask dp returns distance(current, 0) at once,   *)
(* so no activation of dp gets as far as its loop with a full mask, and     *)
(* nothing is recorded for it.                                              *)
C11_TablesPopulatedTogether ==
    /\ DOMAIN memo = DOMAIN parent
    /\ \A k \in DOMAIN memo \cup DOMAIN parent : k[1] # 2 ^ n - 1
    /\ \A d \in 1 .. Len(stack) : stack[d].mask # 2 ^ n - 1

\* dp has returned for several states of at least 3 cities, after calls
\* with a full mask, and solve has returned
C11_Witness ==
    /\ n >= 3
    /\ Len(results) >= 1
    /\ Cardinality(DOMAIN memo) >= 3
    /\ DOMAIN parent = DOMAIN memo

----------------------------------------------------------------------------
(* C12: for every matrix that parse and validate_input accept, solve        *)
(* terminates: every Parent entry recorded for a state (mask, current)      *)
(* names a city whose bit is clear in mask, so the loop of reconstruct_path *)
(* sets a new bit in each iteration and ends after at most n - 1            *)
(* iterations (path never holds more than n cities), and the recursion of   *)
(* dp is never deeper than n.                                               *)
C12_SolveTerminates ==
    /\ \A k \in DOMAIN parent : ~ HasBit(k[1], parent[k])
    /\ pc = "reconstruct" => Len(path) <= n
    /\ Len(stack) <= n

\* the part of C12 that holds: the recursion of dp is never deeper than n,
\* and a Parent entry of a state whose minimum is finite names a city whose
\* bit is clear
RecursionBoundedAndFiniteParentsUnvisited ==
    /\ Len(stack) <= n
    /\ \A k \in DOMAIN parent :
           memo[k] < INFINITY => ~ HasBit(k[1], parent[k])

====
